---- MODULE Spec2Model ----
(***************************************************************************)
(* Model of hyperscan/common.go (package hyperscan of gohs): the DbInfo    *)
(* descriptor parser and the Database wrappers around an engine handle.    *)
(* Strings are sequences of one-character strings.  The engine behind the  *)
(* hs* functions is not part of common.go; it is modelled from the         *)
(* specification (section 4.3, 6 and 7) and kept apart from the wrapper.   *)
(***************************************************************************)
EXTENDS Integers, Sequences, FiniteSets, TLC

\* ------------------------------------------------------------------------
\* Character classes of the regular expression (RE2: ASCII classes)
\* ------------------------------------------------------------------------

\* \d
Digit == {"0", "1", "2", "3", "4", "5", "6", "7", "8", "9"}

\* \w
WordCh ==
  Digit \cup {"_"} \cup
  {"a","b","c","d","e","f","g","h","i","j","k","l","m",
   "n","o","p","q","r","s","t","u","v","w","x","y","z"} \cup
  {"A","B","C","D","E","F","G","H","I","J","K","L","M",
   "N","O","P","Q","R","S","T","U","V","W","X","Y","Z"}

\* \s
SpaceCh == {" ", "\t", "\n", "\f", "\r"}

\* a literal string: it matches itself, once
Lit(str) == [lit |-> str, cls |-> {}, min |-> 1, many |-> FALSE]

\* cls+  (greedy)
Plus(cls) == [lit |-> <<>>, cls |-> cls, min |-> 1, many |-> TRUE]

\* (cls+)?  : the group is tried first (greedy), then skipped
OptPlus(cls) == [lit |-> <<>>, cls |-> cls, min |-> 0, many |-> TRUE]

sVersion == <<"V","e","r","s","i","o","n",":"," ">>
sFeatures == <<" ","F","e","a","t","u","r","e","s",":"," ">>
sMode == <<" ","M","o","d","e",":"," ">>

\* the version group  (\d+\.\d+\.\d+)
reVersionGroup == <<Plus(Digit), Lit(<<".">>), Plus(Digit), Lit(<<".">>), Plus(Digit)>>

\* the features group as a plausible slip would write it:  ([\w\s]+), not optional
reFeaturesGroupRequired == <<Plus(WordCh \cup SpaceCh)>>

\* the features group  ([\w\s]+)?
reFeaturesGroup == <<OptPlus(WordCh \cup SpaceCh)>>

\* the mode group  (\w+)
reModeGroup == <<Plus(WordCh)>>

\* ^Version: (\d+\.\d+\.\d+) Features: ([\w\s]+)? Mode: (\w+)$
\* as the sequence of its items; ^ and $ are the two ends of MatchFrom
regexInfo ==
  <<Lit(sVersion)>> \o reVersionGroup \o <<Lit(sFeatures)>> \o reFeaturesGroup
    \o <<Lit(sMode)>> \o reModeGroup

\* first and last item of each capture group inside regexInfo
GroupSpan(g) ==
  LET f0 == 1 + Len(reVersionGroup) + 1
      m0 == f0 + Len(reFeaturesGroup) + 1
  IN  CASE g = 1 -> <<2, 1 + Len(reVersionGroup)>>
        [] g = 2 -> <<f0 + 1, f0 + Len(reFeaturesGroup)>>
        [] g = 3 -> <<m0 + 1, m0 + Len(reModeGroup)>>

infoMatches == 4

\* length of the longest run of characters of cls in s starting at i
RECURSIVE RunLen(_, _, _)
RunLen(s, i, cls) ==
  IF i <= Len(s) /\ s[i] \in cls THEN 1 + RunLen(s, i + 1, cls) ELSE 0

\* whether the literal str stands in s at position i
LitAt(s, i, str) ==
  i + Len(str) - 1 <= Len(s) /\ \A j \in 1..Len(str) : s[i + j - 1] = str[j]

\* Backtracking match of items k.. of re against s from position i, anchored
\* at the end of s: greedy items give back one character at a time.  The
\* result holds, for each item from k on, the position after its match.
RECURSIVE MatchFrom(_, _, _, _)
RECURSIVE TryCount(_, _, _, _, _)
MatchFrom(re, s, i, k) ==
  IF k > Len(re)
  THEN [ok |-> (i = Len(s) + 1), ends |-> <<>>]
  ELSE IF re[k].lit # <<>>
  THEN IF LitAt(s, i, re[k].lit)
       THEN LET r == MatchFrom(re, s, i + Len(re[k].lit), k + 1)
            IN  [ok |-> r.ok, ends |-> <<i + Len(re[k].lit)>> \o r.ends]
       ELSE [ok |-> FALSE, ends |-> <<>>]
  ELSE LET run == RunLen(s, i, re[k].cls)
       IN  IF run < re[k].min
           THEN [ok |-> FALSE, ends |-> <<>>]
           ELSE TryCount(re, s, i, k, run)

TryCount(re, s, i, k, n) ==
  LET r == MatchFrom(re, s, i + n, k + 1)
  IN  IF r.ok THEN [ok |-> TRUE, ends |-> <<i + n>> \o r.ends]
      ELSE IF n > re[k].min THEN TryCount(re, s, i, k, n - 1)
      ELSE [ok |-> FALSE, ends |-> <<>>]

\* regexp.FindStringSubmatch: <<>> (nil) without a match, else the whole
\* match followed by the text of each group
FindStringSubmatch(re, s) ==
  LET r == MatchFrom(re, s, 1, 1)
      StartOf(k) == IF k = 1 THEN 1 ELSE r.ends[k - 1]
      Group(g) == SubSeq(s, StartOf(GroupSpan(g)[1]), r.ends[GroupSpan(g)[2]] - 1)
  IN  IF r.ok THEN <<s, Group(1), Group(2), Group(3)>> ELSE <<>>

\* ------------------------------------------------------------------------
\* Errors
\* ------------------------------------------------------------------------

\* the nil error
NilErr == [kind |-> "nil", msg |-> ""]

\* a sentinel error value such as ErrInvalid
Sentinel(name) == [kind |-> name, msg |-> ""]

ErrInvalid == Sentinel("ErrInvalid")

\* fmt.Errorf(prefix + "%w", e): an error that wraps e
Errorf(prefix, e) == [kind |-> e.kind, msg |-> prefix]

\* errors.Is(err, target)
ErrorsIs(err, target) == err # NilErr /\ err.kind = target.kind

\* ------------------------------------------------------------------------
\* DbInfo
\* ------------------------------------------------------------------------

sSTREAM == <<"S","T","R","E","A","M">>
sBLOCK == <<"B","L","O","C","K">>
sVECTORED == <<"V","E","C","T","O","R","E","D">>

\* ModeFlag values; 0 is the zero ModeFlag
BlockMode == 1
StreamMode == 2
VectoredMode == 4

\* ParseModeFlag: the flag named by a mode word
ParseModeFlag(word) ==
  CASE word = sBLOCK    -> [val |-> BlockMode, err |-> NilErr]
    [] word = sSTREAM   -> [val |-> StreamMode, err |-> NilErr]
    [] word = sVECTORED -> [val |-> VectoredMode, err |-> NilErr]
    [] OTHER            -> [val |-> BlockMode, err |-> Errorf("database mode, ", ErrInvalid)]

\* fmt.Errorf(prefix + "%v", e): an error that carries e's text, not e
ErrorfText(prefix, e) == [kind |-> "errorString", msg |-> prefix]

\* Version() whose error formats ErrInvalid with %v instead of wrapping it
VersionErrNotWrapped(i) ==
  LET matched == FindStringSubmatch(regexInfo, i)
  IN  IF Len(matched) # infoMatches
      THEN [val |-> <<>>, err |-> ErrorfText("database info, ", ErrInvalid)]
      ELSE [val |-> matched[2], err |-> NilErr]

\* func (i DbInfo) Version() (string, error); matched[1] of the code is the
\* second element here, sequences being 1-based
Version(i) ==
  LET matched == FindStringSubmatch(regexInfo, i)
  IN  IF Len(matched) # infoMatches
      THEN [val |-> <<>>, err |-> Errorf("database info, ", ErrInvalid)]
      ELSE [val |-> matched[2], err |-> NilErr]

\* func (i DbInfo) Mode() (ModeFlag, error)
Mode(i) ==
  LET matched == FindStringSubmatch(regexInfo, i)
  IN  IF Len(matched) # infoMatches
      THEN [val |-> 0, err |-> Errorf("database info, ", ErrInvalid)]
      ELSE ParseModeFlag(matched[4])

\* ------------------------------------------------------------------------
\* Bounds of the model
\* ------------------------------------------------------------------------

\* engine handles (addresses the engine allocates databases at)
MaxHandles == 2

\* calls started in one run
MaxOps == 2

Handles == 1..MaxHandles
Procs == {"g1", "g2"}
Modes == {sBLOCK, sSTREAM, sVECTORED}
Contents == [mode : Modes]

\* ------------------------------------------------------------------------
\* The engine behind the hs* functions
\* ------------------------------------------------------------------------

ErrInvalidArgument == Sentinel("ErrInvalidArgument")
ErrPlatformMismatch == Sentinel("ErrPlatformMismatch")

\* serialized form: <<Magic, platform, mode code, checksum>>
Magic == 219
HostPlatform == 1
ForeignPlatform == 2
BaseSize == 64

ModeCode(m) == ParseModeFlag(m).val
Checksum(mc) == (3 * mc + 1) % 7

\* hs_serialize_database on a live database
Serialize(c) == <<Magic, HostPlatform, ModeCode(c.mode), Checksum(ModeCode(c.mode))>>

\* hs_deserialize_database's validation of the bytes: the content or the error
Deserialize(data) ==
  IF Len(data) # 4 \/ data[1] # Magic \/ data[4] # Checksum(data[3])
  THEN [err |-> ErrInvalid]
  ELSE IF data[2] # HostPlatform
  THEN [err |-> ErrPlatformMismatch]
  ELSE IF \E c \in Contents : ModeCode(c.mode) = data[3]
  THEN [err |-> NilErr,
        content |-> CHOOSE c \in Contents : ModeCode(c.mode) = data[3]]
  ELSE [err |-> ErrInvalid]

\* in-memory size of a compiled database
SizeOf(c) == BaseSize + ModeCode(c.mode)

sVer540 == <<"5",".","4",".","0">>
sAVX2 == <<"A","V","X","2">>
sAVX512dashVBMI == <<"A","V","X","5","1","2","-","V","B","M","I">>

\* descriptor formats of the engine builds the package may be linked with
EngineFmts == {"features", "nofeatures", "foreign"}

\* hs_database_info's text for a database of content c
Descriptor(fmt, c) ==
  sVersion \o sVer540 \o sFeatures
    \o (CASE fmt = "features" -> sAVX2
          [] fmt = "nofeatures" -> <<>>
          [] OTHER -> sAVX512dashVBMI)
    \o sMode \o c.mode

\* Each hs* function yields the set of outcomes the engine can produce:
\* one outcome on a live handle, and on a released handle (undefined
\* behaviour of the engine) either a rejection or the use of the stale memory.

hsDatabaseInfo(fmt, hp, h) ==
  {[val |-> Descriptor(fmt, hp[h].content), err |-> NilErr, heap |-> hp]}
    \cup (IF hp[h].live THEN {} ELSE {[val |-> <<>>, err |-> ErrInvalid, heap |-> hp]})

hsDatabaseSize(hp, h) ==
  {[val |-> SizeOf(hp[h].content), err |-> NilErr, heap |-> hp]}
    \cup (IF hp[h].live THEN {} ELSE {[val |-> 0, err |-> ErrInvalid, heap |-> hp]})

hsStreamSize(hp, h) ==
  (IF hp[h].content.mode = sSTREAM
   THEN {[val |-> SizeOf(hp[h].content), err |-> NilErr, heap |-> hp]}
   ELSE {[val |-> 0, err |-> ErrInvalidArgument, heap |-> hp]})
    \cup (IF hp[h].live THEN {} ELSE {[val |-> 0, err |-> ErrInvalid, heap |-> hp]})

hsSerializeDatabase(hp, h) ==
  {[val |-> Serialize(hp[h].content), err |-> NilErr, heap |-> hp]}
    \cup (IF hp[h].live THEN {} ELSE {[val |-> <<>>, err |-> ErrInvalid, heap |-> hp]})

hsFreeDatabase(hp, h) ==
  IF hp[h].live
  THEN {[err |-> NilErr, heap |-> [hp EXCEPT ![h].live = FALSE]]}
  ELSE {[err |-> NilErr, heap |-> hp], [err |-> ErrInvalid, heap |-> hp]}

hsDeserializeDatabaseAt(hp, data, h) ==
  LET d == Deserialize(data)
  IN  (IF d.err = NilErr
       THEN {[err |-> NilErr, heap |-> [hp EXCEPT ![h].content = d.content]]}
       ELSE {[err |-> d.err, heap |-> hp]})
        \cup (IF hp[h].live THEN {} ELSE {[err |-> ErrInvalid, heap |-> hp]})

\* allocates the database at any address not in use (a released one included)
hsDeserializeDatabase(hp, data) ==
  LET d == Deserialize(data)
  IN  IF d.err = NilErr
      THEN {[db |-> h, err |-> NilErr,
             heap |-> [hp EXCEPT ![h] = [live |-> TRUE, content |-> d.content]]]
              : h \in {x \in Handles : ~hp[x].live}}
      ELSE {[db |-> 0, err |-> d.err, heap |-> hp]}

hsSerializedDatabaseInfo(fmt, data) ==
  LET d == Deserialize(data)
  IN  IF d.err = NilErr
      THEN [val |-> Descriptor(fmt, d.content), err |-> NilErr]
      ELSE [val |-> <<>>, err |-> d.err]

\* byte strings a caller hands to the package: every serialized database,
\* and bytes the engine rejects
DataInputs ==
  {Serialize(c) : c \in Contents} \cup
  {<<>>, <<Magic, ForeignPlatform, BlockMode, Checksum(BlockMode)>>}

\* ------------------------------------------------------------------------
\* State
\* ------------------------------------------------------------------------

VARIABLES
  heap,       \* engine memory: handle -> [live, content]
  dbs,        \* the Database wrappers constructed so far, in order
  closed,     \* per wrapper: a Close() on it has returned
  pc,         \* per goroutine: "idle", or "engine" inside an hs* call
  frame,      \* per goroutine: the call in progress and the d.db it loaded
  last,       \* the call that returned last, with what it returned
  nops,       \* calls started
  engineFmt,  \* descriptor format of the linked engine
  held,       \* a DbInfo value in the caller's hands
  parsed      \* what Version() and Mode() returned for held

vars == <<heap, dbs, closed, pc, frame, last, nops, engineFmt, held, parsed>>

NoFrame == [op |-> "none", w |-> 0, h |-> 0, data |-> <<>>, afterClose |-> FALSE]
NoCall == [op |-> "none", w |-> 0, val |-> <<>>, err |-> NilErr, data |-> <<>>]
NotParsed == [op |-> "none", val |-> <<>>, err |-> NilErr]

\* contents of memory that was never allocated
NoContent == [mode |-> sBLOCK]

\* ------------------------------------------------------------------------
\* Constructors
\* ------------------------------------------------------------------------

newBaseDatabase(db) == [kind |-> "base", db |-> db]
newBlockDatabase(db) == [newBaseDatabase(db) EXCEPT !.kind = "block"]
newStreamDatabase(db) == [newBaseDatabase(db) EXCEPT !.kind = "stream"]
newVectoredDatabase(db) == [newBaseDatabase(db) EXCEPT !.kind = "vectored"]

\* func (d *baseDatabase) Db() hsDatabase
Db(d) == d.db

\* the wrapper a compilation in c's mode returns for the handle db
Compiled(c, db) ==
  CASE c.mode = sBLOCK -> newBlockDatabase(db)
    [] c.mode = sSTREAM -> newStreamDatabase(db)
    [] OTHER -> newVectoredDatabase(db)

\* One database has been compiled, in any mode, at the first address, and is
\* held through the wrapper of its mode; nothing has been called yet.
Init ==
  /\ \E c \in Contents :
       /\ heap = [h \in Handles |->
                   IF h = 1 THEN [live |-> TRUE, content |-> c]
                   ELSE [live |-> FALSE, content |-> NoContent]]
       /\ dbs = <<Compiled(c, 1)>>
  /\ closed = <<FALSE>>
  /\ pc = [p \in Procs |-> "idle"]
  /\ frame = [p \in Procs |-> NoFrame]
  /\ last = NoCall
  /\ nops = 0
  /\ engineFmt \in EngineFmts
  /\ held = <<>>
  /\ parsed = NotParsed

\* the return of the four Unmarshal*Database functions: (nil, err) when the
\* engine fails, else the wrapper around the engine's handle and a nil error
Reconstructed(op, data, r, wrapper) ==
  IF r.err # NilErr
  THEN /\ last' = [op |-> op, w |-> 0, val |-> <<>>, err |-> r.err, data |-> data]
       /\ UNCHANGED <<dbs, closed>>
  ELSE /\ dbs' = Append(dbs, wrapper)
       /\ closed' = Append(closed, FALSE)
       /\ last' = [op |-> op, w |-> Len(dbs) + 1, val |-> <<>>, err |-> NilErr, data |-> data]

\* UnmarshalDatabase that wraps the engine's error
UnmarshalDatabaseWrapsError(data) ==
  /\ nops < MaxOps
  /\ \E r \in hsDeserializeDatabase(heap, data) :
       /\ heap' = r.heap
       /\ Reconstructed("UnmarshalDatabase", data,
                        [r EXCEPT !.err = IF r.err = NilErr THEN NilErr
                                          ELSE Errorf("unmarshal database, ", r.err)],
                        newBaseDatabase(r.db))
  /\ nops' = nops + 1
  /\ UNCHANGED <<pc, frame, engineFmt, held, parsed>>

\* func UnmarshalDatabase(data []byte) (Database, error)
UnmarshalDatabase(data) ==
  /\ nops < MaxOps
  /\ \E r \in hsDeserializeDatabase(heap, data) :
       /\ heap' = r.heap
       /\ Reconstructed("UnmarshalDatabase", data, r, newBaseDatabase(r.db))
  /\ nops' = nops + 1
  /\ UNCHANGED <<pc, frame, engineFmt, held, parsed>>

\* func UnmarshalBlockDatabase(data []byte) (BlockDatabase, error)
UnmarshalBlockDatabase(data) ==
  /\ nops < MaxOps
  /\ \E r \in hsDeserializeDatabase(heap, data) :
       /\ heap' = r.heap
       /\ Reconstructed("UnmarshalBlockDatabase", data, r, newBlockDatabase(r.db))
  /\ nops' = nops + 1
  /\ UNCHANGED <<pc, frame, engineFmt, held, parsed>>

\* func UnmarshalStreamDatabase(data []byte) (StreamDatabase, error)
UnmarshalStreamDatabase(data) ==
  /\ nops < MaxOps
  /\ \E r \in hsDeserializeDatabase(heap, data) :
       /\ heap' = r.heap
       /\ Reconstructed("UnmarshalStreamDatabase", data, r, newStreamDatabase(r.db))
  /\ nops' = nops + 1
  /\ UNCHANGED <<pc, frame, engineFmt, held, parsed>>

\* func UnmarshalVectoredDatabase(data []byte) (VectoredDatabase, error)
UnmarshalVectoredDatabase(data) ==
  /\ nops < MaxOps
  /\ \E r \in hsDeserializeDatabase(heap, data) :
       /\ heap' = r.heap
       /\ Reconstructed("UnmarshalVectoredDatabase", data, r, newVectoredDatabase(r.db))
  /\ nops' = nops + 1
  /\ UNCHANGED <<pc, frame, engineFmt, held, parsed>>

\* SerializedDatabaseInfo that drops the engine's error
SerializedDatabaseInfoDropsError(data) ==
  /\ nops < MaxOps
  /\ LET r == hsSerializedDatabaseInfo(engineFmt, data)
     IN  last' = [op |-> "SerializedDatabaseInfo", w |-> 0, val |-> r.val,
                  err |-> NilErr, data |-> data]
  /\ nops' = nops + 1
  /\ UNCHANGED <<heap, dbs, closed, pc, frame, engineFmt, held, parsed>>

\* func SerializedDatabaseInfo(data []byte) (DbInfo, error)
SerializedDatabaseInfo(data) ==
  /\ nops < MaxOps
  /\ LET r == hsSerializedDatabaseInfo(engineFmt, data)
     IN  last' = [op |-> "SerializedDatabaseInfo", w |-> 0, val |-> r.val,
                  err |-> r.err, data |-> data]
  /\ nops' = nops + 1
  /\ UNCHANGED <<heap, dbs, closed, pc, frame, engineFmt, held, parsed>>

\* ------------------------------------------------------------------------
\* Methods of a Database.  A method evaluates d.db and enters the engine
\* (Call); the engine then runs and the method returns what it returned.
\* Goroutines interleave between the two: the wrapper takes no lock.
\* ------------------------------------------------------------------------

Methods == {"Info", "Size", "Close", "Marshal", "Unmarshal", "StreamSize"}

\* the argument d.db of the hs* call is evaluated and the engine entered.
\* Which goroutine runs a call does not matter to the package, so a call
\* goes to g2 only while g1 is inside one: every schedule of two overlapping
\* calls is covered once instead of twice.
Call(p, op, w, data) ==
  /\ nops < MaxOps
  /\ pc[p] = "idle"
  /\ p = "g2" => pc["g1"] = "engine"
  /\ w \in DOMAIN dbs
  /\ Db(dbs[w]) \in Handles
  /\ op = "StreamSize" => dbs[w].kind = "stream"
  /\ frame' = [frame EXCEPT ![p] =
                 [op |-> op, w |-> w, h |-> Db(dbs[w]), data |-> data,
                  afterClose |-> closed[w]]]
  /\ pc' = [pc EXCEPT ![p] = "engine"]
  /\ nops' = nops + 1
  /\ UNCHANGED <<heap, dbs, closed, last, engineFmt, held, parsed>>

\* the engine's outcome r becomes the method's result
Returned(p, r, val) ==
  /\ heap' = r.heap
  /\ last' = [op |-> frame[p].op, w |-> frame[p].w, val |-> val, err |-> r.err,
              data |-> frame[p].data]
  /\ pc' = [pc EXCEPT ![p] = "idle"]
  /\ frame' = [frame EXCEPT ![p] = NoFrame]
  /\ UNCHANGED <<nops, engineFmt, held, parsed>>

\* func (d *baseDatabase) Size() (int, error)
Size(p) ==
  /\ pc[p] = "engine" /\ frame[p].op = "Size"
  /\ \E r \in hsDatabaseSize(heap, frame[p].h) : Returned(p, r, r.val)
  /\ UNCHANGED <<dbs, closed>>

\* func (d *baseDatabase) Info() (DbInfo, error)
Info(p) ==
  /\ pc[p] = "engine" /\ frame[p].op = "Info"
  /\ \E r \in hsDatabaseInfo(engineFmt, heap, frame[p].h) : Returned(p, r, r.val)
  /\ UNCHANGED <<dbs, closed>>

\* Close() that also clears the handle it released
CloseClearsHandle(p) ==
  /\ pc[p] = "engine" /\ frame[p].op = "Close"
  /\ \E r \in hsFreeDatabase(heap, frame[p].h) : Returned(p, r, <<>>)
  /\ closed' = [closed EXCEPT ![frame[p].w] = TRUE]
  /\ dbs' = [dbs EXCEPT ![frame[p].w].db = 0]

\* func (d *baseDatabase) Close() error
Close(p) ==
  /\ pc[p] = "engine" /\ frame[p].op = "Close"
  /\ \E r \in hsFreeDatabase(heap, frame[p].h) : Returned(p, r, <<>>)
  /\ closed' = [closed EXCEPT ![frame[p].w] = TRUE]
  /\ UNCHANGED dbs

\* Marshal() that releases the database it serialized
MarshalFreesDatabase(p) ==
  /\ pc[p] = "engine" /\ frame[p].op = "Marshal"
  /\ \E r \in hsSerializeDatabase(heap, frame[p].h) :
       \E f \in hsFreeDatabase(r.heap, frame[p].h) :
         Returned(p, [r EXCEPT !.heap = f.heap], r.val)
  /\ UNCHANGED <<dbs, closed>>

\* func (d *baseDatabase) Marshal() ([]byte, error)
Marshal(p) ==
  /\ pc[p] = "engine" /\ frame[p].op = "Marshal"
  /\ \E r \in hsSerializeDatabase(heap, frame[p].h) : Returned(p, r, r.val)
  /\ UNCHANGED <<dbs, closed>>

\* Unmarshal(data) that hands the engine no bytes
UnmarshalDropsData(p) ==
  /\ pc[p] = "engine" /\ frame[p].op = "Unmarshal"
  /\ \E r \in hsDeserializeDatabaseAt(heap, <<>>, frame[p].h) : Returned(p, r, <<>>)
  /\ UNCHANGED <<dbs, closed>>

\* func (d *baseDatabase) Unmarshal(data []byte) error
Unmarshal(p) ==
  /\ pc[p] = "engine" /\ frame[p].op = "Unmarshal"
  /\ \E r \in hsDeserializeDatabaseAt(heap, frame[p].data, frame[p].h) :
       Returned(p, r, <<>>)
  /\ UNCHANGED <<dbs, closed>>

\* StreamSize() that asks the engine for the database size
StreamSizeAsksDatabaseSize(p) ==
  /\ pc[p] = "engine" /\ frame[p].op = "StreamSize"
  /\ \E r \in hsDatabaseSize(heap, frame[p].h) : Returned(p, r, r.val)
  /\ UNCHANGED <<dbs, closed>>

\* func (db *streamDatabase) StreamSize() (int, error)
StreamSize(p) ==
  /\ pc[p] = "engine" /\ frame[p].op = "StreamSize"
  /\ \E r \in hsStreamSize(heap, frame[p].h) : Returned(p, r, r.val)
  /\ UNCHANGED <<dbs, closed>>

Next ==
  \/ \E data \in DataInputs : UnmarshalDatabase(data)
  \/ \E data \in DataInputs : UnmarshalBlockDatabase(data)
  \/ \E data \in DataInputs : UnmarshalStreamDatabase(data)
  \/ \E data \in DataInputs : UnmarshalVectoredDatabase(data)
  \/ \E data \in DataInputs : SerializedDatabaseInfo(data)
  \/ \E p \in Procs, w \in DOMAIN dbs, op \in Methods \ {"Unmarshal"} : Call(p, op, w, <<>>)
  \/ \E p \in Procs, w \in DOMAIN dbs, data \in DataInputs : Call(p, "Unmarshal", w, data)
  \/ \E p \in Procs : Size(p)
  \/ \E p \in Procs : Info(p)
  \/ \E p \in Procs : Close(p)
  \/ \E p \in Procs : Marshal(p)
  \/ \E p \in Procs : Unmarshal(p)
  \/ \E p \in Procs : StreamSize(p)

Spec == Init /\ [][Next]_vars

\* ------------------------------------------------------------------------
\* DbInfo values parsed by a caller
\* ------------------------------------------------------------------------

sGarbage == <<"g","a","r","b","a","g","e">>

\* DbInfo values a caller may hold: "garbage", the empty string, and every
\* string put together from a right or a wrong form of each part of a
\* descriptor
InfoInputs ==
  {sGarbage, <<>>} \cup
  { pre \o lv \o ver \o lf \o feat \o lm \o word \o suf :
      pre  \in {<<>>, <<"x">>},
      lv   \in {sVersion, <<"V","e","r","s","i","o","n",":">>},
      ver  \in {sVer540, <<"1","0",".","2",".","3","3">>, <<"5",".","4">>,
                <<"5",".",".","0">>, <<"5",".","4",".","x">>, <<>>},
      lf   \in {sFeatures, <<" ","F","e","a","t","u","r","e","s",":">>},
      feat \in {<<>>, sAVX2, sAVX2 \o <<" ">> \o <<"S","S","E","_","4","\t","M","o","d","e">>,
                sAVX512dashVBMI, <<" ">>},
      lm   \in {sMode, <<" ","m","o","d","e",":"," ">>},
      word \in {sSTREAM, sBLOCK, <<"N","O"," ","S","T","R","E","A","M">>,
                <<"U","n","k","n","o","w","n","_","9">>, <<>>},
      suf  \in {<<>>, <<"\n">>, <<" ">>} }

InitInfo ==
  /\ heap = [h \in Handles |-> [live |-> FALSE, content |-> NoContent]]
  /\ dbs = <<>>
  /\ closed = <<>>
  /\ pc = [p \in Procs |-> "idle"]
  /\ frame = [p \in Procs |-> NoFrame]
  /\ last = NoCall
  /\ nops = 0
  /\ engineFmt = "features"
  /\ held \in InfoInputs
  /\ parsed = NotParsed

\* the caller calls held.Version()
CallVersion ==
  /\ parsed' = [op |-> "Version", val |-> Version(held).val, err |-> Version(held).err]
  /\ UNCHANGED <<heap, dbs, closed, pc, frame, last, nops, engineFmt, held>>

\* the caller calls held.Mode()
CallMode ==
  /\ parsed' = [op |-> "Mode", val |-> Mode(held).val, err |-> Mode(held).err]
  /\ UNCHANGED <<heap, dbs, closed, pc, frame, last, nops, engineFmt, held>>

NextInfo == CallVersion \/ CallMode

SpecInfo == InitInfo /\ [][NextInfo]_vars

\* ------------------------------------------------------------------------
\* The descriptor grammar, stated on its own:
\*   Version: <digits>.<digits>.<digits> Features: <features> Mode: <word>
\* ------------------------------------------------------------------------

AllIn(t, cls) == \A j \in 1..Len(t) : t[j] \in cls

IsDigits(t) == Len(t) >= 1 /\ AllIn(t, Digit)

IsVersionNumber(t) ==
  \E i \in 1..Len(t) : \E j \in (i + 1)..Len(t) :
    /\ t[i] = "." /\ t[j] = "."
    /\ IsDigits(SubSeq(t, 1, i - 1))
    /\ IsDigits(SubSeq(t, i + 1, j - 1))
    /\ IsDigits(SubSeq(t, j + 1, Len(t)))

\* the lengths <<v, f>> of the version and features fields in every reading
\* of s as a descriptor
DescriptorParts(s) ==
  LET n  == Len(s)
      p1 == Len(sVersion)
      Vs == IF n < p1 \/ SubSeq(s, 1, p1) # sVersion THEN {}
            ELSE { v \in 0..n :
                     /\ p1 + v + Len(sFeatures) <= n
                     /\ SubSeq(s, p1 + v + 1, p1 + v + Len(sFeatures)) = sFeatures
                     /\ IsVersionNumber(SubSeq(s, p1 + 1, p1 + v)) }
      Fs(v) == LET p2 == p1 + v + Len(sFeatures)
               IN  { f \in 0..n :
                       /\ p2 + f + Len(sMode) < n
                       /\ SubSeq(s, p2 + f + 1, p2 + f + Len(sMode)) = sMode
                       /\ AllIn(SubSeq(s, p2 + 1, p2 + f), WordCh \cup SpaceCh)
                       /\ AllIn(SubSeq(s, p2 + f + Len(sMode) + 1, n), WordCh) }
  IN  UNION { { <<v, f>> : f \in Fs(v) } : v \in Vs }

IsDescriptor(s) == DescriptorParts(s) # {}

\* ------------------------------------------------------------------------
\* Claims about DbInfo (under SpecInfo)
\* ------------------------------------------------------------------------

\* C1: on a DbInfo that is not a descriptor from first to last character,
\* Version() returns "" and Mode() returns the zero ModeFlag, each with an
\* error for which errors.Is(err, ErrInvalid) holds.
C1_InvalidDescriptorFails ==
  ~IsDescriptor(held) =>
    /\ parsed.op = "Version" => parsed.val = <<>> /\ ErrorsIs(parsed.err, ErrInvalid)
    /\ parsed.op = "Mode" => parsed.val = 0 /\ ErrorsIs(parsed.err, ErrInvalid)

C1_Witness ==
  held = sGarbage /\ parsed.op = "Version" /\ ErrorsIs(parsed.err, ErrInvalid)

\* C9: Version() returns a nil error exactly on the descriptors, and then
\* returns the <digits>.<digits>.<digits> field; this covers the descriptor
\* with an empty features segment and the strings with a character before
\* "Version:" or after the mode word.
C9_VersionExactlyOnGrammar ==
  parsed.op = "Version" =>
    /\ (parsed.err = NilErr) <=> IsDescriptor(held)
    /\ \A vf \in DescriptorParts(held) :
         parsed.val = SubSeq(held, Len(sVersion) + 1, Len(sVersion) + vf[1])

C9_Witness ==
  /\ held = sVersion \o sVer540 \o sFeatures \o sMode \o sBLOCK
  /\ parsed.op = "Version" /\ parsed.err = NilErr /\ parsed.val = sVer540

\* ------------------------------------------------------------------------
\* Claims about the Database wrappers (under Spec)
\* ------------------------------------------------------------------------

UnmarshalFns ==
  {"UnmarshalDatabase", "UnmarshalBlockDatabase", "UnmarshalStreamDatabase",
   "UnmarshalVectoredDatabase"}

\* this step is a whole call of the package function op
AtomicStep(op) == nops' = nops + 1 /\ pc' = pc /\ last'.op = op

\* this step is the return of goroutine p's call of the method op
ReturnStep(p, op) == pc[p] = "engine" /\ pc'[p] = "idle" /\ frame[p].op = op

\* the engine has not released the database behind wrapper w
Live(hp, w) == hp[Db(dbs[w])].live

\* what Info() and Marshal() of wrapper w return in memory hp
InfoOf(hp, w) == {<<r.val, r.err>> : r \in hsDatabaseInfo(engineFmt, hp, Db(dbs[w]))}
MarshalOf(hp, w) == {<<r.val, r.err>> : r \in hsSerializeDatabase(hp, Db(dbs[w]))}

\* C2: once Close() has returned on a Database, no later call on it (a second
\* Close() included) enters the engine, where it would carry the handle that
\* Close() released.
C2_UseAfterCloseRejected ==
  \A p \in Procs : pc[p] = "engine" => ~frame[p].afterClose

C7_NoReleasedHandleUnderConcurrentClose ==
  \A p \in Procs :
    (/\ pc[p] = "engine"
     /\ frame[p].op \in {"Info", "Size", "Marshal"}
     /\ ~frame[p].afterClose)
      => heap[frame[p].h].live

\* C8: each of the four Unmarshal*Database functions returns the new wrapper
\* (around a live engine database) and a nil error when the engine accepts
\* the bytes, and otherwise nil and the engine's own error, with no wrapper
\* constructed and no memory changed.
C8_UnmarshalAllOrNothing ==
  [][\A op \in UnmarshalFns : AtomicStep(op) =>
       LET d == Deserialize(last'.data)
       IN  IF d.err = NilErr
           THEN /\ last'.err = NilErr
                /\ last'.w = Len(dbs) + 1
                /\ Len(dbs') = Len(dbs) + 1
                /\ heap'[Db(dbs'[last'.w])] = [live |-> TRUE, content |-> d.content]
           ELSE /\ last'.w = 0
                /\ last'.err = d.err
                /\ dbs' = dbs
                /\ heap' = heap]_vars

C8_Witness ==
  /\ last.op = "UnmarshalDatabase"
  /\ last.w = 0 /\ last.err = ErrPlatformMismatch
  /\ Len(dbs) = 1

\* C10: no step changes the handle a wrapper holds: Db() of every wrapper
\* stays what the constructor stored.
C10_HandleFixed ==
  [][\A w \in DOMAIN dbs : w \in DOMAIN dbs' /\ Db(dbs'[w]) = Db(dbs[w])]_vars

C10_Witness ==
  /\ last.op = "Close" /\ last.err = NilErr
  /\ closed[last.w] /\ ~Live(heap, last.w)
  /\ Db(dbs[last.w]) \in Handles

====
